---- MODULE Spec2Model ----
(***************************************************************************)
(* A model of the fish command-line reader (reader.go, main.go).           *)
(*                                                                         *)
(* Reader.Run is the main goroutine; it starts four goroutines             *)
(* (daemonCatchInput, daemonScrolling, daemonRenderPage and the resize     *)
(* watcher of daemonUpdateWindowSize) which share the Reader struct and    *)
(* talk over the unbuffered channels eventSignal and renderSignal and the  *)
(* broadcast channel quitSignal.  Every goroutine is a task with a program *)
(* counter; a statement that touches shared fields is one step.            *)
(***************************************************************************)
EXTENDS Integers, Sequences, FiniteSets, TLC

(***************************************************************************)
(* Bounds of the model.                                                    *)
(***************************************************************************)
\* the document has 1..MaxLines lines
MaxLines == 2
\* the number of events the environment delivers in all: reads of standard
\* input that return, ticks of the ticker, SIGWINCH notifications
MaxEvents == 3

(***************************************************************************)
(* Commands, reader.go:21-30.                                              *)
(***************************************************************************)
CmdExit == 0
CmdNextPage == 1
CmdPrevPage == 2
CmdNextLine == 3
CmdPrevLine == 4
CmdNextHalfPage == 5
CmdSwitchScrolling == 6
CmdNULL == 7
\* no command: the read is dropped by a continue or matches no case
NoCmd == 8

Tasks == {"main", "input", "scroll", "render", "resize"}
Daemons == Tasks \ {"main"}
\* the goroutines that call renderPage
Renderers == {"main", "render", "resize"}
\* the places inside renderPage (saveProgress included)
RenderLabels ==
    {"rp_paint", "sp_check", "sp_assign", "sp_truncate", "sp_write"}

(***************************************************************************)
(* The progress file.  Paths are numbered in their lexicographic order;    *)
(* F is the absolute path of the opened file (Reader.f), OtherPath the     *)
(* path of another book.  A valid file holds the JSON object that          *)
(* json.MarshalIndent writes: its entries as <<path, offset>> pairs, keys  *)
(* sorted.                                                                 *)
(***************************************************************************)
F == 1
OtherPath == 2
Paths == {F, OtherPath}
OtherOffset == 9
Offsets == 0 .. (MaxLines + 1)

EmptyMap == [p \in {} |-> 0]

RECURSIVE MarshalFrom(_, _)
MarshalFrom(m, k) ==
    IF k > OtherPath THEN <<>>
    ELSE IF k \in DOMAIN m THEN <<(<<k, m[k]>>)>> \o MarshalFrom(m, k + 1)
    ELSE MarshalFrom(m, k + 1)

\* json.MarshalIndent(r.progress, "", "  "): the entries, keys sorted
Marshal(m) == MarshalFrom(m, F)

RECURSIVE UnmarshalInto(_, _)
UnmarshalInto(m, entries) ==
    IF entries = <<>> THEN m
    ELSE LET e == Head(entries)
             m1 == [p \in (DOMAIN m) \cup {e[1]} |->
                       IF p = e[1] THEN e[2] ELSE m[p]]
         IN UnmarshalInto(m1, Tail(entries))

AbsentFile == [kind |-> "absent", entries |-> <<>>]
CorruptFile == [kind |-> "corrupt", entries |-> <<>>]
JsonFile(entries) == [kind |-> "json", entries |-> entries]
\* the file after Truncate(0): no bytes, which is not valid JSON
TruncatedFile == [kind |-> "truncated", entries |-> <<>>]

\* the contents the progress file may have when the program starts
InitialDisks ==
    {AbsentFile, CorruptFile}
    \cup {JsonFile(Marshal(EmptyMap))}
    \cup {JsonFile(Marshal([p \in {F} |-> o])) : o \in Offsets}
    \cup {JsonFile(Marshal([p \in Paths |-> IF p = F THEN 1 ELSE OtherOffset]))}
    \cup {JsonFile(Marshal([p \in {OtherPath} |-> OtherOffset]))}

\* what term.GetSize may report: <<width, height>>
Sizes == {<<80, 2>>, <<100, 4>>}

VARIABLES
    pc,                \* the place of every goroutine
    ret,               \* where a goroutine returns to from renderPage
    defers,            \* Run's deferred calls, the next to run first
    runResult,         \* "none" | "nil" | "error" | "panic": how Run ended
    ended,             \* "running" | "exit" | "fatal" | "panic" | "throw"
    totalLine, currentLine, winHeight, winWidth, scrollingLine,
    jumpBreakMark, displayBreakMark,
    previousSavedLine, progress, progressFD, disk,
    pp,                \* saveProgress's local pp in every goroutine
    quitSignal,        \* TRUE once close(r.quitSignal) has run
    altScreen, rawMode,
    b,                 \* daemonCatchInput's buffer, var b [3]byte
    sendCmd,           \* the command daemonCatchInput is sending
    scrollTmp,         \* the sum daemonScrolling is about to store
    events,            \* the events the environment has delivered so far
    teardown,          \* the teardown events so far, in order
    exitLine,          \* currentLine when CmdExit was processed, -1 before
    unsaved,           \* changes of currentLine's value since the start
    trail              \* the commands processed one after the other
                       \* minus writes of the progress file by saveProgress

vars == <<pc, ret, defers, runResult, ended, totalLine, currentLine, winHeight,
          winWidth, scrollingLine, jumpBreakMark, displayBreakMark,
          previousSavedLine, progress, progressFD, disk, pp, quitSignal,
          altScreen, rawMode, b, sendCmd, scrollTmp, events, teardown,
          exitLine, unsaved, trail>>

viewVars == <<totalLine, currentLine, winHeight, winWidth, scrollingLine,
              jumpBreakMark, displayBreakMark>>
progressVars == <<previousSavedLine, progress, progressFD, disk, pp>>
termVars == <<altScreen, rawMode>>
inputVars == <<b, sendCmd>>
historyVars == <<teardown, exitLine, unsaved, trail>>

\* NewReader, reader.go:61-72, and the zero values of the other fields
Init ==
    /\ pc = [t \in Tasks |-> IF t = "main" THEN "start" ELSE "idle"]
    /\ ret = [t \in Renderers |-> "none"]
    /\ defers = <<>>
    /\ runResult = "none"
    /\ ended = "running"
    /\ totalLine = 0
    /\ currentLine = 0
    /\ winHeight = 0
    /\ winWidth = 0
    /\ scrollingLine = 0
    /\ jumpBreakMark = 0
    /\ displayBreakMark = FALSE
    /\ previousSavedLine = 0
    /\ progress = EmptyMap
    /\ progressFD = "nil"
    /\ disk \in InitialDisks
    /\ pp = [t \in Renderers |-> <<>>]
    /\ quitSignal = FALSE
    /\ altScreen = FALSE
    /\ rawMode = FALSE
    /\ b = <<0, 0, 0>>
    /\ sendCmd = NoCmd
    /\ scrollTmp = 0
    /\ events = 0
    /\ teardown = <<>>
    /\ exitLine = -1
    /\ unsaved = 0
    /\ trail = <<>>

Running == ended = "running"
Goto(t, l) == pc' = [pc EXCEPT ![t] = l]

(***************************************************************************)
(* Reader.Run up to the event loop, reader.go:287-311.                     *)
(***************************************************************************)

\* counts a change of currentLine's value
CountChange ==
    unsaved' = IF currentLine' # currentLine THEN unsaved + 1 ELSE unsaved

\* Run's return statement, or a panic: the deferred calls run next
RunEnds(how) ==
    /\ runResult' = how
    /\ Goto("main", "defer")

\* reader.go:288-294: defer close, enterAltScreen, defer exitAltScreen,
\* clearScreenRaw, createIndex (160-169); strings.Split yields >= 1 line
RunStart ==
    /\ Running /\ pc["main"] = "start"
    /\ defers' = <<"exitAltScreen", "close">>
    /\ altScreen' = TRUE
    /\ \/ \E n \in 1 .. MaxLines :
             /\ totalLine' = n
             /\ Goto("main", "load")
             /\ UNCHANGED runResult
       \/ \* os.ReadFile fails
          /\ RunEnds("error")
          /\ UNCHANGED totalLine
    /\ UNCHANGED <<ret, ended, currentLine, winHeight, winWidth, scrollingLine,
                   jumpBreakMark, displayBreakMark, progressVars, quitSignal,
                   rawMode, inputVars, scrollTmp, events,
                   historyVars>>

\* the file after os.Stat and os.WriteFile(d, "{}"), reader.go:134-138
CreatedIfAbsent(d) == IF d.kind = "absent" THEN JsonFile(<<>>) ELSE d

\* a loadProgress that takes a file it cannot parse for an empty record
UnmarshalFails_Lenient(d) == FALSE

\* reader.go:149: json.Unmarshal fails on a file that is not a JSON object
UnmarshalFails(d) == d.kind # "json"

\* loadProgress, reader.go:128-158, and Run's check of its error, 295-297.
\* step names the call that fails, or "ok".
loadProgress(step) ==
    LET d1 == CreatedIfAbsent(disk)
        m == UnmarshalInto(progress, d1.entries)
    IN CASE step = "UserHomeDir" ->
              /\ RunEnds("error")
              /\ UNCHANGED <<disk, progressFD, progress, currentLine,
                             previousSavedLine>>
         [] step = "WriteFile" ->
              /\ disk.kind = "absent"
              /\ RunEnds("error")
              /\ UNCHANGED <<disk, progressFD, progress, currentLine,
                             previousSavedLine>>
         [] step = "OpenFile" ->
              /\ disk' = d1
              /\ RunEnds("error")
              /\ UNCHANGED <<progressFD, progress, currentLine,
                             previousSavedLine>>
         [] step = "ReadAll" ->
              /\ disk' = d1
              /\ progressFD' = "open"
              /\ RunEnds("error")
              /\ UNCHANGED <<progress, currentLine, previousSavedLine>>
         [] OTHER ->
              /\ disk' = d1
              /\ progressFD' = "open"
              /\ IF UnmarshalFails(d1)
                 THEN /\ RunEnds("error")
                      /\ UNCHANGED <<progress, currentLine, previousSavedLine>>
                 ELSE /\ progress' = m
                      /\ IF F \in DOMAIN m
                         THEN /\ currentLine' = m[F]
                              /\ previousSavedLine' = m[F]
                         ELSE UNCHANGED <<currentLine, previousSavedLine>>
                      /\ Goto("main", "size")
                      /\ UNCHANGED runResult

RunLoadProgress ==
    /\ Running /\ pc["main"] = "load"
    /\ \E step \in {"UserHomeDir", "WriteFile", "OpenFile", "ReadAll", "ok"} :
          loadProgress(step)
    /\ CountChange
    /\ UNCHANGED <<ret, defers, ended, totalLine, winHeight, winWidth,
                   scrollingLine, jumpBreakMark, displayBreakMark, quitSignal, pp,
                   termVars, inputVars, scrollTmp, events, teardown, exitLine, trail>>

\* updateWindowsSize, reader.go:171-179, called by Run at 298: a failed
\* term.GetSize panics in the main goroutine, whose deferred calls then run
RunUpdateWindowsSize ==
    /\ Running /\ pc["main"] = "size"
    /\ \/ \E sz \in Sizes :
             /\ winWidth' = sz[1]
             /\ winHeight' = sz[2]
             /\ Goto("main", "rp_paint")
             /\ ret' = [ret EXCEPT !["main"] = "raw"]
             /\ UNCHANGED runResult
       \/ /\ RunEnds("panic")
          /\ UNCHANGED <<winWidth, winHeight, ret>>
    /\ UNCHANGED <<defers, ended, totalLine, currentLine, scrollingLine,
                   jumpBreakMark, displayBreakMark, progressVars, quitSignal,
                   termVars, inputVars, scrollTmp, events,
                   historyVars>>

\* enterRawMode, reader.go:196-205, and Run 299-303
RunEnterRawMode ==
    /\ Running /\ pc["main"] = "raw"
    /\ \/ /\ rawMode' = TRUE
          /\ defers' = <<"rstore">> \o defers
          /\ Goto("main", "go")
          /\ UNCHANGED runResult
       \/ \* term.MakeRaw fails
          /\ RunEnds("error")
          /\ UNCHANGED <<rawMode, defers>>
    /\ UNCHANGED <<ret, ended, viewVars, progressVars, quitSignal, altScreen,
                   inputVars, scrollTmp, events, historyVars>>

\* reader.go:304-307: the four go statements
RunGo ==
    /\ Running /\ pc["main"] = "go"
    /\ pc' = [t \in Tasks |->
                CASE t = "main" -> "clamp"
                  [] t = "input" -> "check"
                  [] OTHER -> "wait"]
    /\ UNCHANGED <<ret, defers, runResult, ended, viewVars, progressVars,
                   quitSignal, termVars, inputVars, scrollTmp, events, historyVars>>

\* reader.go:308-311: the reset of a saved offset beyond the document, then
\* the call of renderPage
RunClamp ==
    /\ Running /\ pc["main"] = "clamp"
    /\ currentLine' = IF currentLine > totalLine THEN 0 ELSE currentLine
    /\ CountChange
    /\ Goto("main", "rp_paint")
    /\ ret' = [ret EXCEPT !["main"] = "recv"]
    /\ UNCHANGED <<defers, runResult, ended, totalLine, winHeight, winWidth,
                   scrollingLine, jumpBreakMark, displayBreakMark, progressVars,
                   quitSignal, termVars, inputVars, scrollTmp, events, teardown, exitLine, trail>>

(***************************************************************************)
(* renderPage and saveProgress, reader.go:237-258 and 115-126, run by the  *)
(* goroutine t that called renderPage.                                     *)
(***************************************************************************)

\* the rows renderPage writes before the status line, reader.go:238-255:
\* one per document line, one more for the break mark, then the padding
RowsWritten(start, h, n, dbm, jbm) ==
    LET pageLines == h - 1
        end == IF start + pageLines > n THEN n ELSE start + pageLines
        shown == IF start < end THEN end - start ELSE 0
        mark == IF dbm /\ jbm >= start /\ jbm < end THEN 1 ELSE 0
        padding == IF end - start < pageLines
                   THEN pageLines - (end - start) ELSE 0
    IN shown + mark + padding

\* reader.go:238-256: the painting and printInfo
renderPage(t) ==
    /\ Running /\ pc[t] = "rp_paint"
    /\ Goto(t, "sp_check")
    /\ UNCHANGED <<ret, defers, runResult, ended, viewVars, progressVars,
                   quitSignal, termVars, inputVars, scrollTmp, events,
                   historyVars>>

\* reader.go:117: does saveProgress return without saving?
NothingToSave == previousSavedLine = currentLine

\* reader.go:117-119
saveProgressCheck(t) ==
    /\ Running /\ pc[t] = "sp_check"
    /\ Goto(t, IF NothingToSave THEN ret[t] ELSE "sp_assign")
    /\ UNCHANGED <<ret, defers, runResult, ended, viewVars, progressVars,
                   quitSignal, termVars, inputVars, scrollTmp, events, historyVars>>

\* reader.go:120-121
saveProgressAssign(t) ==
    /\ Running /\ pc[t] = "sp_assign"
    /\ previousSavedLine' = currentLine
    /\ progress' = [p \in (DOMAIN progress) \cup {F} |->
                      IF p = F THEN currentLine ELSE progress[p]]
    /\ Goto(t, "sp_truncate")
    /\ UNCHANGED <<ret, defers, runResult, ended, viewVars, progressFD, disk,
                   pp, quitSignal, termVars, inputVars, scrollTmp, events, historyVars>>

\* reader.go:122-123: MarshalIndent into pp, then Truncate(0); on a closed
\* descriptor Truncate fails and its error is dropped
saveProgressTruncate(t) ==
    /\ Running /\ pc[t] = "sp_truncate"
    /\ pp' = [pp EXCEPT ![t] = Marshal(progress)]
    /\ disk' = IF progressFD = "open" THEN TruncatedFile ELSE disk
    /\ Goto(t, "sp_write")
    /\ UNCHANGED <<ret, defers, runResult, ended, viewVars, previousSavedLine,
                   progress, progressFD, quitSignal, termVars, inputVars,
                   scrollTmp, events, historyVars>>

\* the file after pp is written at offset 0 (reader.go:124-125): pp
\* replaces the head of what the file holds, and anything longer than pp
\* keeps its tail, which is then not valid JSON
WrittenFile(d, p) ==
    IF Len(d.entries) > Len(p) THEN CorruptFile ELSE JsonFile(p)

\* reader.go:124-125: Seek(0, 0) and Write(pp); on a closed descriptor both
\* fail and their errors are dropped
saveProgressWrite(t) ==
    /\ Running /\ pc[t] = "sp_write"
    /\ IF progressFD = "open"
       THEN /\ disk' = WrittenFile(disk, pp[t])
            /\ unsaved' = unsaved - 1
       ELSE UNCHANGED <<disk, unsaved>>
    /\ pp' = [pp EXCEPT ![t] = <<>>]
    /\ Goto(t, ret[t])
    /\ UNCHANGED <<ret, defers, runResult, ended, viewVars, previousSavedLine,
                   progress, progressFD, quitSignal, termVars, inputVars,
                   scrollTmp, events, teardown, exitLine, trail>>

\* reader.go:121-122 run by two goroutines at once: the Go runtime may stop
\* the process with the fatal error "concurrent map writes" (or "concurrent
\* map iteration and map write"); no deferred call runs
ConcurrentMapAccess ==
    /\ Running
    /\ \E t1, t2 \in Renderers :
          /\ t1 # t2
          /\ pc[t1] = "sp_assign"
          /\ pc[t2] \in {"sp_assign", "sp_truncate"}
    /\ ended' = "throw"
    /\ UNCHANGED <<pc, ret, defers, runResult, viewVars, progressVars,
                   quitSignal, termVars, inputVars, scrollTmp, events, historyVars>>

(***************************************************************************)
(* daemonCatchInput, reader.go:74-113.                                     *)
(***************************************************************************)

\* what a read of standard input may deliver: 1 to 3 bytes
StdinReads ==
    { <<113>>, <<97>>, <<13>>, <<32>>, <<120>>, <<27>>,
      <<27, 91, 65>>, <<27, 91, 66>>, <<27, 91, 67>>, <<27, 91, 68>> }

\* os.Stdin.Read(b[:]) overwrites the first Len(rd) bytes of the buffer
ReadInto(buf, rd) == [i \in 1 .. 3 |-> IF i <= Len(rd) THEN rd[i] ELSE buf[i]]

\* the switch on b[0], reader.go:86-111
Decode(buf) ==
    CASE buf[1] \in {3, 4, 113} -> CmdExit
      [] buf[1] = 97 -> CmdSwitchScrolling
      [] buf[1] = 13 -> CmdNextLine
      [] buf[1] = 32 -> CmdNextHalfPage
      [] buf[1] = 27 ->
           IF buf[2] # 91 THEN NoCmd
           ELSE CASE buf[3] = 65 -> CmdPrevLine
                  [] buf[3] = 66 -> CmdNextLine
                  [] buf[3] = 67 -> CmdNextPage
                  [] buf[3] = 68 -> CmdPrevPage
                  [] OTHER -> NoCmd
      [] OTHER -> NoCmd

\* reader.go:77-81: the select with a default
daemonCatchInputCheck ==
    /\ Running /\ pc["input"] = "check"
    /\ Goto("input", IF quitSignal THEN "done" ELSE "read")
    /\ UNCHANGED <<ret, defers, runResult, ended, viewVars, progressVars,
                   quitSignal, termVars, inputVars, scrollTmp, events, historyVars>>

\* reader.go:82-111: the read and the decoding, up to the send
daemonCatchInputRead ==
    /\ Running /\ pc["input"] = "read"
    /\ events < MaxEvents
    /\ events' = events + 1
    /\ \/ \E rd \in StdinReads :
             LET buf == ReadInto(b, rd) IN
             /\ b' = buf
             /\ IF Decode(buf) = NoCmd
                THEN /\ Goto("input", "check")
                     /\ UNCHANGED sendCmd
                ELSE /\ Goto("input", "send")
                     /\ sendCmd' = Decode(buf)
       \/ \* the read fails: continue
          /\ Goto("input", "check")
          /\ UNCHANGED <<b, sendCmd>>
    /\ UNCHANGED <<ret, defers, runResult, ended, viewVars, progressVars,
                   quitSignal, termVars, scrollTmp, historyVars>>

(***************************************************************************)
(* daemonScrolling, reader.go:271-285.                                     *)
(***************************************************************************)

\* reader.go:276: does the tick advance currentLine?
TickAdvances == currentLine < totalLine - 1

\* reader.go:274-277: a tick is received; the conditions are evaluated and
\* the sum currentLine + scrollingLine is computed
daemonScrollingTick ==
    /\ Running /\ pc["scroll"] = "wait"
    /\ events < MaxEvents
    /\ events' = events + 1
    /\ IF scrollingLine > 0
       THEN IF TickAdvances
            THEN /\ scrollTmp' = currentLine + scrollingLine
                 /\ Goto("scroll", "store")
            ELSE /\ Goto("scroll", "send")
                 /\ UNCHANGED scrollTmp
       ELSE UNCHANGED <<pc, scrollTmp>>
    /\ UNCHANGED <<ret, defers, runResult, ended, viewVars, progressVars,
                   quitSignal, termVars, inputVars, historyVars>>

\* reader.go:277: the sum is stored in currentLine
daemonScrollingStore ==
    /\ Running /\ pc["scroll"] = "store"
    /\ currentLine' = scrollTmp
    /\ CountChange
    /\ Goto("scroll", "send")
    /\ UNCHANGED <<ret, defers, runResult, ended, totalLine, winHeight,
                   winWidth, scrollingLine, jumpBreakMark, displayBreakMark,
                   progressVars, quitSignal, termVars, inputVars, scrollTmp,
                   events, teardown, exitLine, trail>>

\* a select case <-r.quitSignal followed by return, in goroutine t
ObserveQuit(t) ==
    /\ Running /\ pc[t] = "wait"
    /\ quitSignal
    /\ Goto(t, "done")
    /\ UNCHANGED <<ret, defers, runResult, ended, viewVars, progressVars,
                   quitSignal, termVars, inputVars, scrollTmp, events, historyVars>>

\* reader.go:281-282
daemonScrollingQuit == ObserveQuit("scroll")

\* daemonRenderPage, reader.go:265-266
daemonRenderPageQuit == ObserveQuit("render")

(***************************************************************************)
(* The goroutine of daemonUpdateWindowSize, reader.go:181-194.             *)
(***************************************************************************)

\* reader.go:187-188 and updateWindowsSize 172-177: a SIGWINCH is received;
\* a failed term.GetSize panics in this goroutine, which ends the process
\* without running Run's deferred calls
daemonUpdateWindowSizeSignal ==
    /\ Running /\ pc["resize"] = "wait"
    /\ events < MaxEvents
    /\ events' = events + 1
    /\ \/ \E sz \in Sizes :
             /\ winWidth' = sz[1]
             /\ winHeight' = sz[2]
             /\ Goto("resize", "rp_paint")
             /\ ret' = [ret EXCEPT !["resize"] = "wait"]
             /\ UNCHANGED ended
       \/ /\ ended' = "panic"
          /\ UNCHANGED <<winWidth, winHeight, pc, ret>>
    /\ UNCHANGED <<defers, runResult, totalLine, currentLine, scrollingLine,
                   jumpBreakMark, displayBreakMark, progressVars, quitSignal,
                   termVars, inputVars, scrollTmp, historyVars>>

\* reader.go:189-190
daemonUpdateWindowSizeQuit == ObserveQuit("resize")

(***************************************************************************)
(* Run's event loop, reader.go:312-354.                                    *)
(***************************************************************************)

\* a page offset that drops the fraction instead of rounding
PageOffset_Truncated(h) == (3 * h) \div 4

\* int(math.Round(float64(r.winHeight) * r.pageFactor)) with pageFactor 0.75
\* (reader.go:70, 326, 332): halves round away from zero
PageOffset(h) == (3 * h + 2) \div 4

\* a half-page offset that rounds up
HalfPageOffset_RoundedUp(h) == (h + 1) \div 2

\* reader.go:348
HalfPageOffset(h) == h \div 2

\* the goroutines that send on eventSignal, and the command each is sending
Senders == {"input", "scroll"}
Sending(t) == IF t = "input" THEN sendCmd ELSE CmdNULL
AfterSend(t) == IF t = "input" THEN "check" ELSE "wait"

\* a switch whose NextPage stops at the last line instead of staying put
Moved_Clamped(c) ==
    CASE c = CmdNextPage ->
           IF currentLine + PageOffset(winHeight) < totalLine
           THEN currentLine + PageOffset(winHeight) ELSE totalLine - 1
      [] c = CmdPrevPage ->
           IF currentLine - PageOffset(winHeight) >= 0
           THEN currentLine - PageOffset(winHeight) ELSE 0
      [] c = CmdNextLine ->
           IF currentLine < totalLine - 1 THEN currentLine + 1 ELSE currentLine
      [] c = CmdPrevLine ->
           IF currentLine > 0 THEN currentLine - 1 ELSE currentLine
      [] c = CmdNextHalfPage ->
           IF currentLine + winHeight - 1 < totalLine
           THEN currentLine + HalfPageOffset(winHeight) ELSE currentLine
      [] OTHER -> currentLine

\* currentLine after the case of command c, reader.go:324-351
Moved(c) ==
    CASE c = CmdNextPage ->
           IF currentLine + PageOffset(winHeight) < totalLine
           THEN currentLine + PageOffset(winHeight) ELSE currentLine
      [] c = CmdPrevPage ->
           IF currentLine - PageOffset(winHeight) >= 0
           THEN currentLine - PageOffset(winHeight) ELSE 0
      [] c = CmdNextLine ->
           IF currentLine < totalLine - 1 THEN currentLine + 1 ELSE currentLine
      [] c = CmdPrevLine ->
           IF currentLine > 0 THEN currentLine - 1 ELSE currentLine
      [] c = CmdNextHalfPage ->
           IF currentLine + winHeight - 1 < totalLine
           THEN currentLine + HalfPageOffset(winHeight) ELSE currentLine
      [] OTHER -> currentLine

\* scrollingLine after the case of command c, reader.go:316-321
Switched(c) ==
    IF c = CmdSwitchScrolling
    THEN IF scrollingLine = 2 THEN 0 ELSE scrollingLine + 1
    ELSE scrollingLine

\* the commands whose case calls setBreakMark, reader.go:325, 331, 347
SetsBreakMark(c) == c \in {CmdNextPage, CmdPrevPage, CmdNextHalfPage}

\* the case of command c in Run's switch, reader.go:313-351, with
\* setBreakMark, reader.go:357-360
Switch(c) ==
    /\ currentLine' = Moved(c)
    /\ scrollingLine' = Switched(c)
    /\ IF SetsBreakMark(c)
       THEN /\ jumpBreakMark' = currentLine + winHeight - 1
            /\ displayBreakMark' = TRUE
       ELSE UNCHANGED <<jumpBreakMark, displayBreakMark>>

\* reader.go:313-352: a command is received from goroutine t and its case
\* runs; CmdExit returns from Run
Coordinator(t) ==
    /\ Running /\ pc["main"] = "recv" /\ pc[t] = "send"
    /\ LET c == Sending(t) IN
       /\ Switch(c)
       /\ IF c = CmdExit
          THEN /\ runResult' = "nil"
               /\ exitLine' = currentLine
               /\ pc' = [pc EXCEPT !["main"] = "defer", ![t] = AfterSend(t)]
          ELSE /\ pc' = [pc EXCEPT !["main"] = "signal", ![t] = AfterSend(t)]
               /\ UNCHANGED <<runResult, exitLine>>
    /\ CountChange
    /\ UNCHANGED <<ret, defers, ended, totalLine, winHeight, winWidth,
                   progressVars, quitSignal, termVars, inputVars, scrollTmp,
                   events, teardown, trail>>

\* reader.go:353 and 263-264: renderSignal is unbuffered, the send meets
\* daemonRenderPage's receive, which then calls renderPage
RunRenderSignal ==
    /\ Running /\ pc["main"] = "signal" /\ pc["render"] = "wait"
    /\ pc' = [pc EXCEPT !["main"] = "recv", !["render"] = "rp_paint"]
    /\ ret' = [ret EXCEPT !["render"] = "wait"]
    /\ UNCHANGED <<defers, runResult, ended, viewVars, progressVars,
                   quitSignal, termVars, inputVars, scrollTmp, events, historyVars>>

(***************************************************************************)
(* The end of Run and of the process.                                      *)
(***************************************************************************)

\* the deferred call rstore, reader.go:202-204 and 303
rstore ==
    /\ rawMode' = FALSE
    /\ teardown' = Append(teardown, "restore")
    /\ UNCHANGED <<altScreen, progressFD, quitSignal>>

\* the deferred call exitAltScreen, reader.go:233-235 and 290
exitAltScreen ==
    /\ altScreen' = FALSE
    /\ teardown' = Append(teardown, "exitAlt")
    /\ UNCHANGED <<rawMode, progressFD, quitSignal>>

\* the deferred call close, reader.go:362-367 and 288
close ==
    /\ progressFD' = IF progressFD # "nil" THEN "closed" ELSE progressFD
    /\ quitSignal' = TRUE
    /\ teardown' = teardown
                   \o (IF progressFD # "nil" THEN <<"closeFD">> ELSE <<>>)
                   \o <<"quit">>
    /\ UNCHANGED <<altScreen, rawMode>>

\* Run returns or panics: its deferred calls run, the last deferred first
RunDefer ==
    /\ Running /\ pc["main"] = "defer"
    /\ IF defers = <<>>
       THEN /\ Goto("main", "returned")
            /\ UNCHANGED <<defers, teardown, termVars, progressFD, quitSignal>>
       ELSE /\ defers' = Tail(defers)
            /\ UNCHANGED pc
            /\ CASE Head(defers) = "rstore" -> rstore
                 [] Head(defers) = "exitAltScreen" -> exitAltScreen
                 [] OTHER -> close
    /\ UNCHANGED <<ret, runResult, ended, viewVars, previousSavedLine,
                   progress, disk, pp, inputVars, scrollTmp, events,
                   exitLine, unsaved, trail>>

\* main.go:23-26 and 29-43: main returns after Run, or prints the error and
\* calls os.Exit; a panic of the main goroutine ends the process here too
ProcessExit ==
    /\ Running /\ pc["main"] = "returned"
    /\ ended' = CASE runResult = "nil" -> "exit"
                  [] runResult = "error" -> "fatal"
                  [] OTHER -> "panic"
    /\ UNCHANGED <<pc, ret, defers, runResult, viewVars, progressVars,
                   quitSignal, termVars, inputVars, scrollTmp, events, historyVars>>

Next ==
    \/ RunStart
    \/ RunLoadProgress
    \/ RunUpdateWindowsSize
    \/ RunEnterRawMode
    \/ RunGo
    \/ RunClamp
    \/ \E t \in Senders : Coordinator(t)
    \/ RunRenderSignal
    \/ RunDefer
    \/ ProcessExit
    \/ \E t \in Renderers : renderPage(t)
    \/ \E t \in Renderers : saveProgressCheck(t)
    \/ \E t \in Renderers : saveProgressAssign(t)
    \/ \E t \in Renderers : saveProgressTruncate(t)
    \/ \E t \in Renderers : saveProgressWrite(t)
    \/ ConcurrentMapAccess
    \/ daemonCatchInputCheck
    \/ daemonCatchInputRead
    \/ daemonScrollingTick
    \/ daemonScrollingStore
    \/ daemonScrollingQuit
    \/ daemonRenderPageQuit
    \/ daemonUpdateWindowSizeSignal
    \/ daemonUpdateWindowSizeQuit

Spec == Init /\ [][Next]_vars

(***************************************************************************)
(* Run's loop alone, reader.go:312-354: the commands arrive one after the  *)
(* other and the render requested for a command has finished before the    *)
(* next command is received.  No tick, no SIGWINCH, no Exit.               *)
(***************************************************************************)

NavMaxKeys == 4
NavMargin == 35
NavTotalLines == {1000, 70}
NavHeights == {40, 5}
NavCommands ==
    {CmdNextPage, CmdPrevPage, CmdNextLine, CmdPrevLine, CmdNextHalfPage}

\* the offsets restored at startup: those near either end of the document
NavStarts(n) == {s \in 0 .. (n - 1) : s <= NavMargin \/ s >= n - 1 - NavMargin}

\* the state in which Run's loop waits for its first command, the progress
\* file holding the offset s of the opened file (reader.go:288-313)
NavInit ==
    \E n \in NavTotalLines, h \in NavHeights :
      \E s \in NavStarts(n) :
        /\ pc = [t \in Tasks |-> CASE t = "main" -> "recv"
                                   [] t = "input" -> "check"
                                   [] OTHER -> "wait"]
        /\ ret = [t \in Renderers |-> IF t = "main" THEN "recv" ELSE "none"]
        /\ defers = <<"rstore", "exitAltScreen", "close">>
        /\ runResult = "none"
        /\ ended = "running"
        /\ totalLine = n
        /\ currentLine = s
        /\ winHeight = h
        /\ winWidth = 80
        /\ scrollingLine = 0
        /\ jumpBreakMark = 0
        /\ displayBreakMark = FALSE
        /\ previousSavedLine = s
        /\ progress = [p \in {F} |-> s]
        /\ progressFD = "open"
        /\ disk = JsonFile(Marshal([p \in {F} |-> s]))
        /\ pp = [t \in Renderers |-> <<>>]
        /\ quitSignal = FALSE
        /\ altScreen = TRUE
        /\ rawMode = TRUE
        /\ b = <<0, 0, 0>>
        /\ sendCmd = NoCmd
        /\ scrollTmp = 0
        /\ events = 0
        /\ teardown = <<>>
        /\ exitLine = -1
        /\ unsaved = 0
        /\ trail = <<>>

\* reader.go:313-353 for command c, then the renderPage it requests with
\* its saveProgress (reader.go:116-125)
NavCommand(c) ==
    /\ Len(trail) < NavMaxKeys
    /\ Switch(c)
    /\ trail' = Append(trail, [cmd |-> c, from |-> currentLine,
                                to |-> currentLine'])
    /\ previousSavedLine' = currentLine'
    /\ progress' = [p \in (DOMAIN progress) \cup {F} |->
                       IF p = F THEN currentLine' ELSE progress[p]]
    /\ disk' = IF previousSavedLine = currentLine' THEN disk
               ELSE WrittenFile(TruncatedFile, Marshal(progress'))
    /\ UNCHANGED <<pc, ret, defers, runResult, ended, totalLine, winHeight,
                   winWidth, progressFD, pp, quitSignal, termVars, inputVars,
                   scrollTmp, events, teardown, exitLine, unsaved>>

NavNext == \E c \in NavCommands : NavCommand(c)

NavSpec == NavInit /\ [][NavNext]_vars

(***************************************************************************)
(* Properties.                                                             *)
(***************************************************************************)

InRange == 0 <= currentLine /\ currentLine < totalLine

\* Run's loop processes a command in this step
CommandStep == pc["main"] = "recv" /\ pc'["main"] # "recv"

\* daemonScrolling stores the advanced line in this step
TickStep == pc["scroll"] = "store" /\ pc'["scroll"] # "store"

\* the goroutines inside renderPage
InRender == {t \in Renderers : pc[t] \in RenderLabels}

\* the offset loadProgress would restore from a progress file
SavedOffset(d) ==
    LET m == UnmarshalInto(EmptyMap, d.entries)
    IN IF F \in DOMAIN m THEN m[F] ELSE 0

\* C1: a command or a scroll tick taken with 0 <= currentLine < totalLine
\* leaves 0 <= currentLine < totalLine.
C1_LineStaysInRange ==
    [][(CommandStep \/ TickStep) /\ InRange => InRange']_vars

\* C2: when the process has ended by an Exit command, the offset the
\* progress file holds for the opened file (the offset a reload restores)
\* is the value currentLine had when Exit was processed.
C2_ExitPersistsCurrentLine ==
    ended = "exit" => SavedOffset(disk) = exitLine

\* C3: the view state and the progress record change only in steps of the
\* main goroutine (Reader.Run); no other goroutine writes them.
C3_OnlyRunWrites ==
    [][(viewVars' # viewVars
        \/ <<previousSavedLine, progress, disk>>'
             # <<previousSavedLine, progress, disk>>)
       => pc'["main"] # pc["main"]]_vars

\* C4: at most one goroutine is inside renderPage at any time.
C4_OneRenderAtATime == Cardinality(InRender) <= 1

\* C5: while a render triggered by a command is in progress the coordinator
\* processes no further command, and currentLine, the break mark and the
\* scroll mode, which the render reads, do not change.
C5_RenderBeforeNextCommand ==
    [][pc["render"] \in RenderLabels
       => /\ ~CommandStep
          /\ <<currentLine, jumpBreakMark, displayBreakMark, scrollingLine>>'
               = <<currentLine, jumpBreakMark, displayBreakMark, scrollingLine>>
      ]_vars

\* the place of a teardown event in the order quit signal, progress file
\* closed, raw mode restored, alternate screen left
TeardownRank(e) ==
    CASE e = "quit" -> 1
      [] e = "closeFD" -> 2
      [] e = "restore" -> 3
      [] OTHER -> 4

\* C6: when Run returns after an Exit command, the teardown events occur in
\* the order: shutdown signal raised, progress store closed, raw mode
\* restored, alternate screen left.
C6_TeardownOrder ==
    runResult = "nil" =>
        \A i, j \in 1 .. Len(teardown) :
            i < j => TeardownRank(teardown[i]) < TeardownRank(teardown[j])

\* C7: once the shutdown signal has been raised, every producer goroutine
\* has observed it and returned by the time main returns or calls os.Exit;
\* none is left blocked on a channel send or on a read.
C7_ProducersStopBeforeExit ==
    (quitSignal /\ ended \in {"exit", "fatal"})
        => \A d \in Daemons : pc[d] \in {"idle", "done"}

\* C8: whenever the process has ended, the alternate screen has been left
\* and raw mode has been restored.
C8_TerminalRestored ==
    ended # "running" => ~altScreen /\ ~rawMode

\* C9: with a progress file that is not valid JSON, Run never gets past
\* loadProgress: no daemon is started, no event is consumed and no command
\* processed, the process can only end with a fatal error, and the file
\* stays as it was.
C9_CorruptProgressIsFatal ==
    /\ [](disk = CorruptFile
            => /\ \A d \in Daemons : pc[d] = "idle"
               /\ pc["main"] \in {"start", "load", "defer", "returned"}
               /\ events = 0 /\ exitLine = -1
               /\ runResult \in {"none", "error"}
               /\ ended \in {"running", "fatal"})
    /\ [][disk = CorruptFile => disk' = CorruptFile]_vars

\* C9: the process has ended with a fatal error after loadProgress opened a
\* corrupt progress file, which Run's deferred close then closed
C9_Witness ==
    disk = CorruptFile /\ ended = "fatal" /\ progressFD = "closed"

\* C10: the writes of the progress file never outnumber the changes of
\* currentLine's value.
C10_WritesBoundedByChanges == unsaved >= 0

\* the entries of the paths other than the opened file's in a map
OtherEntries(m) == [p \in (DOMAIN m) \ {F} |-> m[p]]

\* C11: once no save is under way, or the process has ended, the progress
\* file holds for every path other than the opened file's the value that
\* loadProgress read, and none of these paths is missing.
C11_OtherPathsPreserved ==
    (ended # "running" \/ \A t \in Renderers : pc[t] # "sp_write")
        => \/ disk.kind # "truncated"
           \/ OtherEntries(progress) = EmptyMap

\* daemonScrolling takes a tick with scrolling on in this step
TickTaken == pc["scroll"] = "wait" /\ pc'["scroll"] \in {"store", "send"}

\* C12: a scroll tick taken with scrolling on advances currentLine exactly
\* when currentLine < totalLine - 1 and, at level 2, currentLine is not
\* within one line of the last line; the value it then stores is
\* currentLine + scrollingLine.
C12_TickAdvancesByStep ==
    [][TickTaken =>
          /\ pc'["scroll"] = "store"
                <=> /\ currentLine < totalLine - 1
                    /\ scrollingLine = 2 => currentLine < totalLine - 2
          /\ pc'["scroll"] = "store"
                => scrollTmp' = currentLine + scrollingLine]_vars

\* C13: a step in which daemonScrolling, waiting for a tick, does not go on
\* to advance currentLine leaves it with no command to send (it keeps
\* waiting or returns on quitSignal), so no render is requested for it.
C13_IdleTickSendsNothing ==
    [][(pc["scroll"] = "wait" /\ pc'["scroll"] # "store")
          => pc'["scroll"] \in {"wait", "done"}]_vars

\* the first n entries of trail are the commands cs, in that order
TrailStarts(cs) ==
    /\ Len(trail) >= Len(cs)
    /\ \A i \in 1 .. Len(cs) : trail[i].cmd = cs[i]

\* is k the integer nearest to 3h/4, halves rounded up?
IsRounded75(k, h) == 4 * k - 3 * h \in -1 .. 2

\* is k the quotient of h by 2?
IsHalf(k, h) == 2 * k <= h /\ h < 2 * k + 2

\* the integer nearest to 3h/4
Rounded75(h) == CHOOSE k \in 0 .. h : IsRounded75(k, h)

\* is the move of trail entry e not limited by a file boundary?
Unlimited(e) ==
    CASE e.cmd = CmdNextPage -> e.from + Rounded75(winHeight) < totalLine
      [] e.cmd = CmdPrevPage -> e.from - Rounded75(winHeight) >= 0
      [] e.cmd = CmdNextHalfPage -> e.from + winHeight - 1 < totalLine
      [] OTHER -> FALSE

\* C14: a NextPage or PrevPage not limited by a file boundary moves
\* currentLine forward or back by the integer nearest to 0.75 * winHeight
\* and a NextHalfPage by the quotient of winHeight by 2; with 1000 lines,
\* height 40 and currentLine 0, NextPage, NextPage, PrevPage, NextHalfPage
\* give currentLine 30, 60, 30, 50.
C14_PageOffsets ==
    /\ \A i \in 1 .. Len(trail) :
          LET e == trail[i] IN
          Unlimited(e) =>
            CASE e.cmd = CmdNextPage -> IsRounded75(e.to - e.from, winHeight)
              [] e.cmd = CmdPrevPage -> IsRounded75(e.from - e.to, winHeight)
              [] e.cmd = CmdNextHalfPage -> IsHalf(e.to - e.from, winHeight)
    /\ ( /\ totalLine = 1000 /\ winHeight = 40
         /\ TrailStarts(<<CmdNextPage, CmdNextPage, CmdPrevPage,
                          CmdNextHalfPage>>)
         /\ trail[1].from = 0 )
        => /\ trail[1].to = 30 /\ trail[2].to = 60
           /\ trail[3].to = 30 /\ trail[4].to = 50

\* C14: the four commands of the example have been processed from line 0
\* of a document of 1000 lines in a window of height 40
C14_Witness ==
    /\ totalLine = 1000 /\ winHeight = 40
    /\ Len(trail) = 4
    /\ TrailStarts(<<CmdNextPage, CmdNextPage, CmdPrevPage, CmdNextHalfPage>>)
    /\ trail[1].from = 0

\* the positions in trail of a NextPage immediately followed by a PrevPage
NextThenPrev ==
    {i \in 1 .. (Len(trail) - 1) :
        trail[i].cmd = CmdNextPage /\ trail[i + 1].cmd = CmdPrevPage}

Malformed(rd) ==
    /\ rd[1] = 27
    /\ ~(Len(rd) = 3 /\ rd[2] = 91 /\ rd[3] \in 65 .. 68)

\* C16: whenever daemonCatchInput is about to read standard input, a read
\* that delivers a malformed or partial escape sequence would emit no
\* command, whatever the earlier reads left in the buffer.
C16_MalformedEscapeDiscarded ==
    pc["input"] = "read"
        => \A rd \in StdinReads :
              Malformed(rd) => Decode(ReadInto(b, rd)) = NoCmd

\* C17: the render that follows a command writes exactly winHeight - 1
\* rows before the status line, whatever currentLine and the break mark.
C17_RenderFillsPage ==
    trail # <<>>
        => RowsWritten(currentLine, winHeight, totalLine, displayBreakMark,
                       jumpBreakMark) = winHeight - 1

\* the command processed last
LastCommand == trail[Len(trail)]

\* C18: a NextHalfPage advances currentLine by the quotient of winHeight by
\* 2 if currentLine + winHeight - 1 is a line of the document and leaves it
\* unchanged otherwise; in both cases the break mark is then visible at the
\* pre-move currentLine + winHeight - 1.
C18_HalfPageAllOrNothing ==
    (trail # <<>> /\ LastCommand.cmd = CmdNextHalfPage)
        => /\ IF LastCommand.from + winHeight - 1 < totalLine
              THEN IsHalf(LastCommand.to - LastCommand.from, winHeight)
              ELSE LastCommand.to = LastCommand.from
           /\ currentLine = LastCommand.to
           /\ jumpBreakMark = LastCommand.from + winHeight - 1
           /\ displayBreakMark

\* C18: a NextHalfPage that advanced was followed by one that was refused
\* near the end of the document
C18_Witness ==
    /\ Len(trail) >= 2
    /\ LastCommand.cmd = CmdNextHalfPage
    /\ LastCommand.to = LastCommand.from
    /\ trail[Len(trail) - 1].cmd = CmdNextHalfPage
    /\ trail[Len(trail) - 1].to > trail[Len(trail) - 1].from

\* Run tests the restored offset against totalLine in this step
ClampStep == pc["main"] = "clamp" /\ pc'["main"] # "clamp"

\* C19: when Run tests the restored offset, currentLine is the offset p of
\* the opened file in the progress file, and the test keeps it if
\* 0 <= p < totalLine and resets currentLine to 0 otherwise.
C19_StartupRestoresOffset ==
    [][ClampStep =>
          /\ currentLine = SavedOffset(disk)
          /\ currentLine' = IF currentLine < totalLine THEN currentLine
                                                       ELSE 0]_vars

\* a command is offered and not received, or processed and not rendered
Pending ==
    \/ \E t \in Senders : pc[t] = "send"
    \/ pc["main"] = "signal"
    \/ pc["render"] \in RenderLabels

\* C20: while no Exit has been processed and term.GetSize has not failed,
\* the process does not stop with a command offered and not received, or
\* processed and its render not completed: such a command would never be
\* received or rendered, under any scheduling.
C20_NoCommandStranded ==
    (Pending /\ runResult = "none") => ended \in {"running", "panic"}

====
